---- MODULE Spec2Model ----
(***************************************************************************)
(* LocalEmbeddingsController (vscode/src/local-context/local-embeddings.ts) *)
(* as a state machine.  The controller's fields are the variables; every    *)
(* async method is cut at its await points: the synchronous prefix of a     *)
(* call is one action, and each continuation is one action that runs when   *)
(* the task is at the head of the microtask queue `ready`.                  *)
(***************************************************************************)
EXTENDS Integers, Sequences, FiniteSets, TLC

\* ---------------------------------------------------------------- bounds
\* async tasks (suspended calls) that may exist at the same time
MaxTasks == 2
\* calls the host makes to the controller in one run
MaxCalls == 4

\* ---------------------------------------------------------------- inputs
DOTCOM_URL == "https://sourcegraph.com/"
Endpoints == {DOTCOM_URL, "https://enterprise.example/"}
\* "undefined" stands for JavaScript's undefined, "null" for null
Undefined == "undefined"
Null == "null"
Tokens == {"t1", "t2"}
Paths == {"/repo", "/other"}
\* a Progress payload <<numItems, totalItems>>
ProgressPayloads == {<<1, 2>>}

\* ---------------------------------------------------------------- state
VARIABLES
    service,           \* this.service: "absent" | "pending" | "resolved" | "rejected"
    serviceStarted,    \* this.serviceStarted
    accessToken,       \* this.accessToken: a token or Undefined
    endpointIsDotcom,  \* this.endpointIsDotcom
    statusBar,         \* this.statusBar
    lastRepo,          \* this.lastRepo
    pathBeingIndexed,  \* this.pathBeingIndexed: a path or Undefined
    spawnCount,        \* number of spawnBfg calls made
    handlers,          \* number of embeddings/progress handlers registered
    workerToken,       \* argument of the latest embeddings/set-token request
    waiters,           \* tasks awaiting the pending service promise, in order
    ready,             \* microtask queue: tasks whose awaited promise settled
    inflight,          \* tasks awaiting the worker's response to a request
    calls,             \* calls the host has made so far
    jobOpen,           \* an embeddings/index request was sent, no Done received since
    prevLoad,          \* the load call that just returned (for back-to-back loads)
    ev,                \* what the last step did
    sent,              \* requests sent to the worker by the last step
    emitted            \* events fired by the last step, with what an observer reads

vars == <<service, serviceStarted, accessToken, endpointIsDotcom, statusBar,
          lastRepo, pathBeingIndexed, spawnCount, handlers, workerToken,
          waiters, ready, inflight, jobOpen, prevLoad, ev, sent,
          emitted, calls>>

ctrl == <<serviceStarted, accessToken, endpointIsDotcom, statusBar, lastRepo,
          pathBeingIndexed, handlers, workerToken>>

NoRepo == [defined |-> FALSE, path |-> Undefined, loadResult |-> FALSE]
Repo(p, r) == [defined |-> TRUE, path |-> p, loadResult |-> r]

NoBar == [defined |-> FALSE, icon |-> "", percent |-> 0, warn |-> FALSE]
\* faulty variant: no status bar item is created
NewBar_Disposed == NoBar

\* vscode.window.createStatusBarItem(...) (lines 246-250)
NewBar == [defined |-> TRUE, icon |-> "", percent |-> 0, warn |-> FALSE]

BoolStr(b) == IF b THEN "true" ELSE "false"

\* a suspended call; newer is history: the path of an embeddings/load request
\* sent after this call's own, while this one was unanswered
Task(op, pc, p, tok, prior) ==
    [op |-> op, pc |-> pc, path |-> p, token |-> tok, res |-> "-", prior |-> prior,
     newer |-> Undefined]

Ev(act, op, p, res, out, pair) ==
    [act |-> act, op |-> op, path |-> p, res |-> res, out |-> out, pair |-> pair]

Req(method, arg) == [method |-> method, arg |-> arg]

NumTasks == Len(waiters) + Len(ready) + Len(inflight)

RemoveAt(s, i) == SubSeq(s, 1, i - 1) \o SubSeq(s, i + 1, Len(s))

\* ---------------------------------------------------------------- status
\* faulty variant: a loaded repository is reported ready before the indexing
\* test is made
StatusState_ReadyFirst(dotcom, repo, pbi) ==
    IF ~dotcom THEN "none"
    ELSE IF ~repo.defined THEN "indeterminate"
    ELSE IF repo.loadResult THEN "ready"
    ELSE IF pbi = repo.path THEN "indexing"
    ELSE "unconsented"

\* the state the status getter reports; "none" is the empty group list
StatusState(dotcom, repo, pbi) ==
    IF ~dotcom THEN "none"
    ELSE IF ~repo.defined THEN "indeterminate"
    ELSE IF pbi = repo.path THEN "indexing"
    ELSE IF repo.loadResult THEN "ready"
    ELSE "unconsented"

\* the status getter: a list of groups, root is workspaceFolders?.[0].uri.fsPath
Status(dotcom, repo, pbi, root) ==
    IF StatusState(dotcom, repo, pbi) = "none" THEN <<>>
    ELSE <<[name |-> IF repo.defined THEN repo.path
                     ELSE IF root # Undefined THEN root
                     ELSE "(No workspace loaded)",
            kind |-> "embeddings", type |-> "local",
            state |-> StatusState(dotcom, repo, pbi)]>>

\* one firing of an emitter, with the state an observer reads in its callback
Fire(emitter, dotcom, repo, pbi) ==
    [emitter |-> emitter, status |-> StatusState(dotcom, repo, pbi),
     pathBeingIndexed |-> pbi, lastRepo |-> repo]

\* ---------------------------------------------------------------- getService
\* faulty variant: only a successful attempt is memoized
NeedsSpawn_UnlessResolved(s) == s # "resolved"

\* getService: spawn only when no attempt is memoized
NeedsSpawn(s) == s = "absent"

GetService(s) == IF NeedsSpawn(s) THEN "pending" ELSE s

\* `await this.getService()`: memoize the attempt, then suspend task t on it
\* (rdy is the microtask queue the running code leaves behind)
AwaitServiceOn(t, rdy) ==
    /\ service' = GetService(service)
    /\ spawnCount' = spawnCount + (IF NeedsSpawn(service) THEN 1 ELSE 0)
    /\ IF GetService(service) = "pending"
       THEN /\ waiters' = Append(waiters, t)
            /\ ready' = rdy
       ELSE /\ ready' = Append(rdy, t)
            /\ waiters' = waiters

AwaitService(t) == AwaitServiceOn(t, ready)

\* ---------------------------------------------------------------- Init
Init ==
    /\ service = "absent"
    /\ serviceStarted = FALSE
    /\ accessToken = Undefined
    /\ endpointIsDotcom = FALSE
    /\ statusBar = NoBar
    /\ lastRepo = NoRepo
    /\ pathBeingIndexed = Undefined
    /\ spawnCount = 0
    /\ handlers = 0
    /\ workerToken = Undefined
    /\ waiters = <<>>
    /\ ready = <<>>
    /\ inflight = <<>>
    /\ jobOpen = FALSE
    /\ calls = 0
    /\ prevLoad = <<>>
    /\ ev = Ev("Init", "-", Undefined, "-", "-", <<>>)
    /\ sent = <<>>
    /\ emitted = <<>>


\* ---------------------------------------------------------------- host calls
\* start(): await this.getService() (line 55)
Start ==
    /\ calls < MaxCalls
    /\ calls' = calls + 1
    /\ NumTasks < MaxTasks
    /\ AwaitService(Task("start", "awaitService", Undefined, Undefined, <<>>))
    /\ ev' = Ev("Start", "start", Undefined, "-", "pending", <<>>)
    /\ sent' = <<>>
    /\ emitted' = <<>>
    /\ prevLoad' = <<>>
    /\ UNCHANGED <<ctrl, inflight, jobOpen>>

\* faulty variant: fires whenever the new backend is primary
FlagChanged_WhenPrimary(new, old) == new

\* setAccessToken: the backend flag differs from the one held
FlagChanged(new, old) == new # old

\* setAccessToken: token === this.accessToken (null is never equal to a held value)
TokenUnchanged(token, held) == token = held

\* faulty variant: a changed token is kept but never forwarded
ForwardsToken_Never(token, started) == FALSE

\* setAccessToken: the new token is forwarded to a started service
ForwardsToken(token, started) == token # Null /\ started

SetAccessToken(serverEndpoint, token) ==
    LET isDotcom == serverEndpoint = DOTCOM_URL
        changed == FlagChanged(isDotcom, endpointIsDotcom)
        fires == IF changed
                 THEN <<Fire("status", endpointIsDotcom, lastRepo, pathBeingIndexed)>>
                      \o (IF serviceStarted
                          THEN <<Fire("change", endpointIsDotcom, lastRepo, pathBeingIndexed)>>
                          ELSE <<>>)
                 ELSE <<>>
    IN  /\ calls < MaxCalls
        /\ calls' = calls + 1
        /\ emitted' = fires
        /\ endpointIsDotcom' = isDotcom
        /\ sent' = <<>>
        /\ prevLoad' = <<>>
        /\ IF TokenUnchanged(token, accessToken)
           THEN /\ ev' = Ev("SetAccessToken", "setAccessToken", Undefined, token, "ok", <<>>)
                /\ UNCHANGED <<accessToken, service, spawnCount, waiters, ready>>
           ELSE /\ accessToken' = (IF token = Null THEN Undefined ELSE token)
                /\ IF ForwardsToken(token, serviceStarted)
                   THEN /\ NumTasks < MaxTasks
                        /\ AwaitService(Task("setAccessToken", "awaitService",
                                             Undefined, token, <<>>))
                        /\ ev' = Ev("SetAccessToken", "setAccessToken", Undefined,
                                    token, "pending", <<>>)
                   ELSE /\ ev' = Ev("SetAccessToken", "setAccessToken", Undefined,
                                    token, "ok", <<>>)
                        /\ UNCHANGED <<service, spawnCount, waiters, ready>>
        /\ UNCHANGED <<serviceStarted, statusBar, lastRepo, pathBeingIndexed,
                       handlers, workerToken, inflight, jobOpen>>

\* faulty variant: the guard forgets the cached loadResult
IndexGuard_NoLoadResult(dotcom, repo) == dotcom /\ repo.defined

\* index(): the guard of line 232 (negated: TRUE means indexing proceeds)
IndexGuard(dotcom, repo) == dotcom /\ repo.defined /\ ~repo.loadResult

Index ==
    /\ calls < MaxCalls
    /\ calls' = calls + 1
    /\ sent' = <<>>
    /\ emitted' = <<>>
    /\ prevLoad' = <<>>
    /\ IF ~IndexGuard(endpointIsDotcom, lastRepo)
       THEN /\ ev' = Ev("Index", "index", Undefined, "-", "noop", <<>>)
            /\ UNCHANGED <<service, spawnCount, waiters, ready>>
       ELSE /\ NumTasks < MaxTasks
            /\ AwaitService(Task("index", "awaitService", lastRepo.path, Undefined, <<>>))
            /\ ev' = Ev("Index", "index", lastRepo.path, "-", "pending", <<>>)
    /\ UNCHANGED <<ctrl, inflight, jobOpen>>

\* faulty variant: the cache is never consulted
LoadDecision_NoCache(dotcom, p, repo, started) ==
    IF ~dotcom THEN "notDotcom"
    ELSE IF p = Undefined THEN "noPath"
    ELSE IF ~started THEN "spawnOnly"
    ELSE "eager"

\* faulty variant: the backend flag is not checked
LoadDecision_NoDotcomCheck(dotcom, p, repo, started) ==
    IF p = Undefined THEN "noPath"
    ELSE IF repo.defined /\ p = repo.path THEN "cached"
    ELSE IF ~started THEN "spawnOnly"
    ELSE "eager"

\* faulty variant: any cached result answers, whatever its path
LoadDecision_AnyCached(dotcom, p, repo, started) ==
    IF ~dotcom THEN "notDotcom"
    ELSE IF p = Undefined THEN "noPath"
    ELSE IF repo.defined THEN "cached"
    ELSE IF ~started THEN "spawnOnly"
    ELSE "eager"

\* load(): which branch of lines 258-283 is taken; p = Undefined is load(undefined)
LoadDecision(dotcom, p, repo, started) ==
    IF ~dotcom THEN "notDotcom"
    ELSE IF p = Undefined THEN "noPath"
    ELSE IF repo.defined /\ p = repo.path THEN "cached"
    ELSE IF ~started THEN "spawnOnly"
    ELSE "eager"

Load(p) ==
    LET d == LoadDecision(endpointIsDotcom, p, lastRepo, serviceStarted)
        second == prevLoad # <<>> /\ prevLoad[1].path = p
        \* the pair of back-to-back calls this call completes without a request
        pair0 == IF second
                 THEN <<[bound |-> prevLoad[1].bound, first |-> prevLoad[1].first,
                         second |-> 0]>>
                 ELSE <<>>
    IN  /\ calls < MaxCalls
        /\ calls' = calls + 1
        /\ sent' = <<>>
        /\ emitted' = <<>>
        /\ CASE d \in {"notDotcom", "noPath"} ->
                  /\ ev' = Ev("Load", "load", p, "-", "false", pair0)
                  /\ prevLoad' = <<>>
                  /\ UNCHANGED <<service, spawnCount, waiters, ready>>
             [] d = "cached" ->
                  /\ ev' = Ev("Load", "load", p, "-", BoolStr(lastRepo.loadResult), pair0)
                  /\ prevLoad' = <<>>
                  /\ UNCHANGED <<service, spawnCount, waiters, ready>>
             [] d = "spawnOnly" ->
                  /\ NumTasks < MaxTasks
                  /\ AwaitService(Task("loadSpawn", "awaitService", p, Undefined, <<>>))
                  /\ ev' = Ev("Load", "load", p, "-", "false", pair0)
                  /\ prevLoad' = <<[path |-> p, bound |-> FALSE, first |-> 0]>>
             [] d = "eager" ->
                  /\ NumTasks < MaxTasks
                  /\ AwaitService(Task("load", "awaitService2", p, Undefined,
                                       IF second THEN prevLoad ELSE <<>>))
                  /\ ev' = Ev("Load", "load", p, "-", "pending", <<>>)
                  /\ prevLoad' = <<>>
        /\ UNCHANGED <<ctrl, inflight, jobOpen>>

\* query() and getContext(): query returns {results: []} when not dotcom
QueryCall(op) ==
    /\ calls < MaxCalls
    /\ calls' = calls + 1
    /\ sent' = <<>>
    /\ emitted' = <<>>
    /\ prevLoad' = <<>>
    /\ IF ~endpointIsDotcom
       THEN /\ ev' = Ev("QueryCall", op, Undefined, "-", "empty", <<>>)
            /\ UNCHANGED <<service, spawnCount, waiters, ready>>
       ELSE /\ NumTasks < MaxTasks
            /\ AwaitService(Task(op, "awaitService", Undefined, Undefined, <<>>))
            /\ ev' = Ev("QueryCall", op, Undefined, "-", "pending", <<>>)
    /\ UNCHANGED <<ctrl, inflight, jobOpen>>

Query == QueryCall("query")

GetContext == QueryCall("getContext")


\* ---------------------------------------------------------------- the worker
\* a message from the worker, or the outcome of the spawn, is an event-loop
\* task: it is delivered once the microtask queue has drained
Drained == ready = <<>>

\* faulty variant: the reload happens only while nothing is cached
DoneReloads_OnlyUncached(pbi, repo) == pbi # Undefined /\ ~repo.defined

\* faulty variant: the reload happens for every recorded job
DoneReloads_Always(pbi, repo) == pbi # Undefined

\* the embeddings/progress handler reloads on Done (line 129)
DoneReloads(pbi, repo) == pbi # Undefined /\ (~repo.defined \/ repo.path = pbi)

\* the percentage shown for a Progress payload (line 110)
Percent(numItems, totalItems) == (100 * numItems) \div totalItems

\* faulty variant: the handler is not registered
RegisterNotification_Skipped(n) == n

\* service.registerNotification('embeddings/progress', ...) (line 103)
RegisterNotification(n) == n + 1

\* spawnBfg resolved: the rest of spawnAndBindService (lines 102-160)
SpawnSucceed ==
    /\ UNCHANGED calls
    /\ Drained
    /\ service = "pending"
    /\ handlers' = RegisterNotification(handlers)
    /\ IF accessToken # Undefined
       THEN /\ sent' = <<Req("embeddings/set-token", accessToken)>>
            /\ workerToken' = accessToken
       ELSE /\ sent' = <<>>
            /\ workerToken' = workerToken
    /\ serviceStarted' = TRUE
    /\ emitted' = <<Fire("change", endpointIsDotcom, lastRepo, pathBeingIndexed)>>
    /\ service' = "resolved"
    /\ ready' = ready \o waiters
    /\ waiters' = <<>>
    /\ ev' = Ev("SpawnSucceed", "-", Undefined, "-", "-", <<>>)
    /\ UNCHANGED <<accessToken, endpointIsDotcom, statusBar, lastRepo,
                   pathBeingIndexed, spawnCount, inflight, jobOpen,
                   prevLoad>>

\* spawnBfg failed: captureException, the memoized promise rejects (lines 96-99)
SpawnFail ==
    /\ UNCHANGED calls
    /\ Drained
    /\ service = "pending"
    /\ service' = "rejected"
    /\ ready' = ready \o waiters
    /\ waiters' = <<>>
    /\ ev' = Ev("SpawnFail", "-", Undefined, "-", "-", <<>>)
    /\ sent' = <<>>
    /\ emitted' = <<>>
    /\ UNCHANGED <<ctrl, spawnCount, inflight, jobOpen, prevLoad>>

\* what the worker may answer to the request a task waits on
Answers(pc) ==
    CASE pc = "awaitLoad" -> {"true", "false", "error"}
      [] pc = "awaitIndex" -> {"ack", "error"}
      [] pc = "awaitQuery" -> {"results", "noresults", "error"}

\* the worker answers (or fails) the i-th outstanding request; the awaiting
\* task's continuation is queued
Respond(i, r) ==
    /\ UNCHANGED calls
    /\ Drained
    /\ i \in 1..Len(inflight)
    /\ r \in Answers(inflight[i].pc)
    /\ inflight' = RemoveAt(inflight, i)
    /\ ready' = Append(ready, [inflight[i] EXCEPT !.res = r])
    /\ ev' = Ev("Respond", inflight[i].op, inflight[i].path, r, "-", <<>>)
    /\ sent' = <<>>
    /\ emitted' = <<>>
    /\ UNCHANGED <<ctrl, service, spawnCount, waiters, jobOpen, prevLoad>>

NotifyKinds == {"Progress", "Error", "Object", "Done", "Other"}

\* the worker pushes an embeddings/progress notification (lines 103-145)
Notify(kind, payload) ==
    /\ UNCHANGED calls
    /\ Drained
    /\ handlers > 0
    /\ sent' = <<>>
    /\ jobOpen' = (IF kind = "Done" THEN FALSE ELSE jobOpen)
    /\ prevLoad' = (IF kind = "Done" THEN <<>> ELSE prevLoad)
    /\ IF ~statusBar.defined
       THEN /\ ev' = Ev("Notify", "-", Undefined, kind, "ignored", <<>>)
            /\ emitted' = <<>>
            /\ UNCHANGED <<ctrl, service, spawnCount, waiters, ready>>
       ELSE CASE kind = "Progress" ->
                  /\ statusBar' = [defined |-> TRUE, icon |-> "loading",
                                   percent |-> Percent(payload[1], payload[2]),
                                   warn |-> FALSE]
                  /\ ev' = Ev("Notify", "-", Undefined, kind, "shown", <<>>)
                  /\ emitted' = <<>>
                  /\ UNCHANGED <<serviceStarted, accessToken, endpointIsDotcom,
                                 lastRepo, pathBeingIndexed, handlers, workerToken,
                                 service, spawnCount, waiters, ready>>
              [] kind = "Error" ->
                  /\ statusBar' = [defined |-> TRUE, icon |-> "warning",
                                   percent |-> 0, warn |-> TRUE]
                  /\ ev' = Ev("Notify", "-", Undefined, kind, "shown", <<>>)
                  /\ emitted' = <<>>
                  /\ UNCHANGED <<serviceStarted, accessToken, endpointIsDotcom,
                                 lastRepo, pathBeingIndexed, handlers, workerToken,
                                 service, spawnCount, waiters, ready>>
              [] kind = "Done" ->
                  /\ statusBar' = NoBar
                  /\ IF DoneReloads(pathBeingIndexed, lastRepo)
                     THEN /\ NumTasks < MaxTasks
                          /\ AwaitService(Task("done", "awaitService2",
                                               pathBeingIndexed, Undefined, <<>>))
                          /\ ev' = Ev("Notify", "-", pathBeingIndexed, kind,
                                      "reload", <<>>)
                     ELSE /\ ev' = Ev("Notify", "-", pathBeingIndexed, kind,
                                      "noreload", <<>>)
                          /\ UNCHANGED <<service, spawnCount, waiters, ready>>
                  /\ pathBeingIndexed' = Undefined
                  /\ emitted' = <<Fire("status", endpointIsDotcom, lastRepo, Undefined)>>
                  /\ UNCHANGED <<serviceStarted, accessToken, endpointIsDotcom,
                                 lastRepo, handlers, workerToken>>
              [] kind \in {"Object", "Other"} ->
                  /\ ev' = Ev("Notify", "-", Undefined, kind, "logged", <<>>)
                  /\ emitted' = <<>>
                  /\ UNCHANGED <<ctrl, service, spawnCount, waiters, ready>>
    /\ UNCHANGED inflight

\* ---------------------------------------------------------------- continuations
\* the task at the head of the microtask queue resumes
Head1 == Head(ready)

Resumes(ops, pc) == ready # <<>> /\ Head1.op \in ops /\ Head1.pc = pc

\* faulty variant: a rejected attempt is taken for a session
ServiceFailed_Never == FALSE

\* the awaited service promise rejected: the await throws
ServiceFailed == service = "rejected"

\* faulty variant: getContext lets the exception through
GetContextRethrows == "raised"

\* what a call reports when it ends with an exception: query, load and start
\* propagate it, getContext catches it and returns [] (lines 308-311)
GetContextOnError == "empty"

Raise(op) == IF op = "getContext" THEN GetContextOnError ELSE "raised"

\* start() after `await this.getService()` (lines 56-59)
StartAfterService ==
    /\ UNCHANGED calls
    /\ Resumes({"start"}, "awaitService")
    /\ sent' = <<>>
    /\ emitted' = <<>>
    /\ IF ServiceFailed
       THEN /\ ev' = Ev("StartAfterService", "start", Undefined, "rejected", "raised", <<>>)
            /\ ready' = Tail(ready)
            /\ UNCHANGED <<service, spawnCount, waiters>>
       ELSE \E root \in Paths \cup {Undefined} :
              IF root = Undefined
              THEN /\ ev' = Ev("StartAfterService", "start", root, "-", "ok", <<>>)
                   /\ ready' = Tail(ready)
                   /\ UNCHANGED <<service, spawnCount, waiters>>
              ELSE /\ AwaitServiceOn(Task("start", "awaitService2", root, Undefined, <<>>),
                                     Tail(ready))
                   /\ ev' = Ev("StartAfterService", "start", root, "-", "pending", <<>>)
    /\ UNCHANGED <<ctrl, inflight, jobOpen, prevLoad>>

\* history: when a request for path p is sent, the embeddings/load requests
\* still unanswered note that a newer request exists
Superseded(tasks, p) ==
    [i \in DOMAIN tasks |->
        IF tasks[i].pc = "awaitLoad" THEN [tasks[i] EXCEPT !.newer = p] ELSE tasks[i]]

\* history: the request for path p failed, so it supersedes nothing
Reinstated(tasks, p) ==
    [i \in DOMAIN tasks |->
        IF tasks[i].pc = "awaitLoad" /\ tasks[i].newer = p
        THEN [tasks[i] EXCEPT !.newer = Undefined] ELSE tasks[i]]

\* eagerlyLoad after `await this.getService()`: the embeddings/load request (line 289)
EagerlyLoadSend ==
    /\ UNCHANGED calls
    /\ Resumes({"start", "load", "done"}, "awaitService2")
    /\ emitted' = <<>>
    /\ ready' = Tail(ready)
    /\ IF ServiceFailed
       THEN /\ ev' = Ev("EagerlyLoadSend", Head1.op, Head1.path, "rejected",
                        IF Head1.op = "done" THEN "unhandled" ELSE "raised", <<>>)
            /\ sent' = <<>>
            /\ inflight' = inflight
       ELSE /\ ev' = Ev("EagerlyLoadSend", Head1.op, Head1.path, "-", "pending", <<>>)
            /\ sent' = <<Req("embeddings/load", Head1.path)>>
            /\ inflight' = Append(Superseded(inflight, Head1.path),
                                  [Head1 EXCEPT !.pc = "awaitLoad"])
    /\ UNCHANGED <<ctrl, service, spawnCount, waiters, jobOpen, prevLoad>>

\* faulty variant: a failed request is taken for an answer
LoadFailed_Never(res) == FALSE

\* eagerlyLoad: the awaited embeddings/load request threw (line 289)
LoadFailed(res) == res = "error"

\* eagerlyLoad after the worker's answer (lines 287-292): load and start then
\* return; the Done handler's task goes on after its own await (line 132)
EagerlyLoadResolve ==
    /\ UNCHANGED calls
    /\ Resumes({"start", "load", "done"}, "awaitLoad")
    /\ sent' = <<>>
    /\ ready' = (IF Head1.op = "done" /\ ~LoadFailed(Head1.res)
                 THEN Append(Tail(ready), [Head1 EXCEPT !.pc = "afterLoad",
                                                       !.newer = Undefined])
                 ELSE Tail(ready))
    /\ IF LoadFailed(Head1.res)
       THEN /\ ev' = Ev("EagerlyLoadResolve", Head1.op, Head1.path, Head1.res,
                        IF Head1.op = "done" THEN "unhandled" ELSE "raised", <<>>)
            /\ emitted' = <<>>
            /\ prevLoad' = (IF Head1.op = "load" THEN <<>> ELSE prevLoad)
            /\ lastRepo' = lastRepo
       ELSE /\ lastRepo' = Repo(Head1.path, Head1.res = "true")
            /\ emitted' = <<Fire("status", endpointIsDotcom, lastRepo', pathBeingIndexed)>>
            /\ ev' = Ev("EagerlyLoadResolve", Head1.op, Head1.path, Head1.res,
                        IF Head1.op = "load" THEN Head1.res
                        ELSE IF Head1.op = "done" THEN "pending" ELSE "ok",
                        IF Head1.op = "load" /\ Head1.prior # <<>>
                        THEN <<[bound |-> Head1.prior[1].bound,
                                first |-> Head1.prior[1].first, second |-> 1]>>
                        ELSE <<>>)
            /\ prevLoad' = (IF Head1.op = "load"
                            THEN <<[path |-> Head1.path, bound |-> TRUE, first |-> 1]>>
                            ELSE <<>>)
    /\ inflight' = (IF LoadFailed(Head1.res) THEN Reinstated(inflight, Head1.path)
                    ELSE inflight)
    /\ UNCHANGED <<serviceStarted, accessToken, endpointIsDotcom, statusBar,
                   pathBeingIndexed, handlers, workerToken, service,
                   spawnCount, waiters, jobOpen>>

\* the Done handler's task after `await this.eagerlyLoad(path)` (lines 133-134)
ReloadAfterDone ==
    /\ UNCHANGED calls
    /\ Resumes({"done"}, "afterLoad")
    /\ ready' = Tail(ready)
    /\ emitted' = <<Fire("change", endpointIsDotcom, lastRepo, pathBeingIndexed)>>
    /\ ev' = Ev("ReloadAfterDone", "done", Head1.path, Head1.res, "ok", <<>>)
    /\ sent' = <<>>
    /\ UNCHANGED <<ctrl, service, spawnCount, waiters, inflight, jobOpen, prevLoad>>

\* setAccessToken after `await this.getService()`: embeddings/set-token (line 81)
SendToken ==
    /\ UNCHANGED calls
    /\ Resumes({"setAccessToken"}, "awaitService")
    /\ ready' = Tail(ready)
    /\ emitted' = <<>>
    /\ IF ServiceFailed
       THEN /\ ev' = Ev("SendToken", "setAccessToken", Undefined, "rejected", "raised", <<>>)
            /\ sent' = <<>>
            /\ workerToken' = workerToken
       ELSE /\ ev' = Ev("SendToken", "setAccessToken", Undefined, "-", "ok", <<>>)
            /\ sent' = <<Req("embeddings/set-token", Head1.token)>>
            /\ workerToken' = Head1.token
    /\ UNCHANGED <<serviceStarted, accessToken, endpointIsDotcom, statusBar,
                   lastRepo, pathBeingIndexed, handlers, service,
                   spawnCount, waiters, inflight, jobOpen, prevLoad>>

\* index() after `await this.getService()`: embeddings/index (line 243)
IndexSend ==
    /\ UNCHANGED calls
    /\ Resumes({"index"}, "awaitService")
    /\ ready' = Tail(ready)
    /\ emitted' = <<>>
    /\ IF ServiceFailed
       THEN /\ ev' = Ev("IndexSend", "index", Head1.path, "rejected", "ok", <<>>)
            /\ sent' = <<>>
            /\ UNCHANGED <<inflight, jobOpen>>
       ELSE /\ ev' = Ev("IndexSend", "index", Head1.path, "-", "pending", <<>>)
            /\ sent' = <<Req("embeddings/index", Head1.path)>>
            /\ inflight' = Append(inflight, [Head1 EXCEPT !.pc = "awaitIndex"])
            /\ jobOpen' = TRUE
    /\ UNCHANGED <<ctrl, service, spawnCount, waiters, prevLoad>>

\* faulty variant: a failed request is taken for an acknowledgement
IndexAccepted_Always(res) == TRUE

\* index(): the awaited embeddings/index request did not throw (line 243)
IndexAccepted(res) == res # "error"

\* index() after the worker's answer (lines 244-254)
IndexAck ==
    /\ UNCHANGED calls
    /\ Resumes({"index"}, "awaitIndex")
    /\ ready' = Tail(ready)
    /\ sent' = <<>>
    /\ IF ~IndexAccepted(Head1.res)
       THEN /\ ev' = Ev("IndexAck", "index", Head1.path, Head1.res, "ok", <<>>)
            /\ emitted' = <<>>
            /\ UNCHANGED <<pathBeingIndexed, statusBar>>
       ELSE /\ pathBeingIndexed' = Head1.path
            /\ statusBar' = NewBar
            /\ emitted' = <<Fire("status", endpointIsDotcom, lastRepo, Head1.path)>>
            /\ ev' = Ev("IndexAck", "index", Head1.path, Head1.res, "ok", <<>>)
    /\ UNCHANGED <<serviceStarted, accessToken, endpointIsDotcom, lastRepo,
                   handlers, workerToken, service, spawnCount, waiters,
                   inflight, jobOpen, prevLoad>>

\* load()'s background `await this.getService()` settles (lines 274-280)
LoadSpawnSettled ==
    /\ UNCHANGED calls
    /\ Resumes({"loadSpawn"}, "awaitService")
    /\ ready' = Tail(ready)
    /\ ev' = Ev("LoadSpawnSettled", "loadSpawn", Head1.path,
                IF ServiceFailed THEN "rejected" ELSE "-", "ok", <<>>)
    /\ sent' = <<>>
    /\ emitted' = <<>>
    /\ UNCHANGED <<ctrl, service, spawnCount, waiters, inflight, jobOpen, prevLoad>>

\* query() after `await this.getService()`: embeddings/query (line 299)
QuerySend ==
    /\ UNCHANGED calls
    /\ Resumes({"query", "getContext"}, "awaitService")
    /\ ready' = Tail(ready)
    /\ emitted' = <<>>
    /\ IF ServiceFailed
       THEN /\ ev' = Ev("QuerySend", Head1.op, Undefined, "rejected", Raise(Head1.op), <<>>)
            /\ sent' = <<>>
            /\ inflight' = inflight
       ELSE /\ ev' = Ev("QuerySend", Head1.op, Undefined, "-", "pending", <<>>)
            /\ sent' = <<Req("embeddings/query", "q")>>
            /\ inflight' = Append(inflight, [Head1 EXCEPT !.pc = "awaitQuery"])
    /\ UNCHANGED <<ctrl, service, spawnCount, waiters, jobOpen, prevLoad>>

\* query() / getContext() after the worker's answer (lines 299, 305-307)
QueryResolve ==
    /\ UNCHANGED calls
    /\ Resumes({"query", "getContext"}, "awaitQuery")
    /\ ready' = Tail(ready)
    /\ ev' = Ev("QueryResolve", Head1.op, Undefined, Head1.res,
                CASE Head1.res = "error" -> Raise(Head1.op)
                  [] Head1.res = "results" -> "results"
                  [] Head1.res = "noresults" -> "empty",
                <<>>)
    /\ sent' = <<>>
    /\ emitted' = <<>>
    /\ UNCHANGED <<ctrl, service, spawnCount, waiters, inflight, jobOpen, prevLoad>>

\* ---------------------------------------------------------------- specification
Next ==
    \/ Start
    \/ \E e \in Endpoints, t \in Tokens \cup {Null} : SetAccessToken(e, t)
    \/ Index
    \/ \E p \in Paths \cup {Undefined} : Load(p)
    \/ Query
    \/ GetContext
    \/ SpawnSucceed
    \/ SpawnFail
    \/ \E i \in 1..MaxTasks, r \in {"true", "false", "ack", "results", "noresults", "error"} :
          Respond(i, r)
    \/ \E k \in NotifyKinds \ {"Progress"} : Notify(k, <<0, 1>>)
    \/ \E pl \in ProgressPayloads : Notify("Progress", pl)
    \/ StartAfterService
    \/ EagerlyLoadSend
    \/ EagerlyLoadResolve
    \/ ReloadAfterDone
    \/ SendToken
    \/ IndexSend
    \/ IndexAck
    \/ LoadSpawnSettled
    \/ QuerySend
    \/ QueryResolve

Spec == Init /\ [][Next]_vars

\* the event loop runs every queued continuation
Continue ==
    \/ StartAfterService
    \/ EagerlyLoadSend
    \/ EagerlyLoadResolve
    \/ ReloadAfterDone
    \/ SendToken
    \/ IndexSend
    \/ IndexAck
    \/ LoadSpawnSettled
    \/ QuerySend
    \/ QueryResolve

\* the worker answers, or fails, every request it is sent
WorkerResponds ==
    \E i \in 1..Len(inflight) : \E r \in Answers(inflight[i].pc) : Respond(i, r)

\* the runs in which continuations run and requests are answered
FairSpec == Spec /\ WF_vars(Continue) /\ WF_vars(WorkerResponds)


\* ---------------------------------------------------------------- properties
StatusFires(es) == Cardinality({i \in DOMAIN es : es[i].emitter = "status"})

AllTasks == waiters \o ready \o inflight

\* C1: whatever calls are made and however they interleave, spawnBfg is called
\* at most once; a settled attempt, failed or not, stays memoized and no later
\* call spawns again.
C1_SingleFlightSpawn ==
    [][/\ spawnCount' <= 1
       /\ (service = "absent") = (spawnCount = 0)
       /\ service = "rejected" => service' = "rejected" /\ spawnCount' = spawnCount
       /\ service = "resolved" => service' = "resolved" /\ spawnCount' = spawnCount
       /\ service = "pending" => spawnCount' = spawnCount]_vars

\* two callers await the one attempt
C1_Witness == Len(waiters) >= 2 /\ spawnCount = 1 /\ service = "pending"

\* C2 (as claimed): of two load calls for the same path that are outstanding
\* together, at most one has an embeddings/load request on the channel.
C2_OneLoadRequest ==
    \A i, j \in DOMAIN AllTasks :
        (/\ i # j
         /\ AllTasks[i].op = "load" /\ AllTasks[j].op = "load"
         /\ AllTasks[i].path = AllTasks[j].path)
        => ~(AllTasks[i].pc = "awaitLoad" /\ AllTasks[j].pc = "awaitLoad")

\* C3 (as claimed): two load(P) calls in a row, P not cached at the first,
\* send exactly one embeddings/load request between them.
C3_ExactlyOneRoundTrip ==
    ev.pair # <<>> => ev.pair[1].first + ev.pair[1].second = 1

\* C3 (amended): two load(P) calls in a row send exactly one embeddings/load
\* request if the session was bound at the first call (the first sends it, the
\* second is answered from the cache); if it was not, the first sends none and
\* the two send at most one.
C3_AtMostOneRoundTrip ==
    ev.pair # <<>> =>
        /\ ev.pair[1].bound => ev.pair[1].first = 1 /\ ev.pair[1].second = 0
        /\ ~ev.pair[1].bound => ev.pair[1].first = 0 /\ ev.pair[1].second <= 1

\* the first call found no session, the second one sent the request
C3_Witness ==
    ev.pair # <<>> /\ ~ev.pair[1].bound /\ ev.pair[1].second = 1 /\ ev.op = "load"

C5_IndexNoop ==
    [][(ev'.act = "Index"
        /\ ~(endpointIsDotcom /\ lastRepo.defined /\ ~lastRepo.loadResult))
       => /\ sent' = <<>>
          /\ emitted' = <<>>
          /\ UNCHANGED <<service, spawnCount, pathBeingIndexed, lastRepo,
                         statusBar, waiters, ready, inflight, jobOpen>>]_vars

\* index() on a repository that is already loaded
C5_Witness ==
    /\ ev.act = "Index" /\ ev.out = "noop"
    /\ endpointIsDotcom /\ lastRepo.defined /\ lastRepo.loadResult

\* C6 (as claimed): no embeddings/index request is sent while an earlier one
\* has not been followed by Done.
C6_OneJobOutstanding ==
    [][(ev'.act = "IndexSend" /\ sent' # <<>>) => ~jobOpen]_vars

\* C7: a setAccessToken call fires the status event once if it changes the
\* backend flag and not at all if it does not, whatever the token; its
\* continuation fires nothing.
C7_StatusEventOnFlagChange ==
    [][/\ ev'.act = "SetAccessToken" =>
            StatusFires(emitted') =
                (IF endpointIsDotcom' # endpointIsDotcom THEN 1 ELSE 0)
       /\ ev'.act = "SendToken" => emitted' = <<>>]_vars

\* the flag went from non-primary to primary with the token already held
C7_Witness ==
    /\ ev.act = "SetAccessToken" /\ ev.res = accessToken
    /\ endpointIsDotcom /\ StatusFires(emitted) = 1 /\ emitted[1].status = "none"

\* C8: getContext never ends with an exception; a rejected embeddings/query
\* request or a failed spawn gives the empty list.
C8_GetContextNeverRaises ==
    ev.op = "getContext" =>
        /\ ev.out # "raised"
        /\ (ev.act \in {"QuerySend", "QueryResolve"} /\ ev.res \in {"error", "rejected"})
              => ev.out = "empty"

\* the worker rejected the query of a getContext call
C8_Witness ==
    ev.op = "getContext" /\ ev.act = "QueryResolve" /\ ev.res = "error"
    /\ ev.out = "empty"

\* C9: load with the backend not primary, or without a path, returns false,
\* sends nothing, starts no spawn attempt and leaves lastRepo as it was.
C9_LoadFailsClosed ==
    [][(ev'.act = "Load" /\ (~endpointIsDotcom \/ ev'.path = Undefined))
       => /\ ev'.out = "false"
          /\ sent' = <<>>
          /\ UNCHANGED <<service, spawnCount, lastRepo, waiters, ready, inflight>>]_vars

\* load of a real path while the backend is not primary, with a session bound
C9_Witness ==
    /\ ev.act = "Load" /\ ev.path # Undefined /\ ~endpointIsDotcom
    /\ serviceStarted /\ ev.out = "false"

\* C10 (as claimed): with the backend primary and a path given, load answers
\* from the cache when the path is the cached one, and otherwise always goes
\* on to request embeddings/load.
C10_AlwaysContactsWorker ==
    (ev.act = "Load" /\ endpointIsDotcom /\ ev.path # Undefined) =>
        IF lastRepo.defined /\ lastRepo.path = ev.path
        THEN ev.out = BoolStr(lastRepo.loadResult)
        ELSE ev.out = "pending"

\* C10 (amended): the cached path is answered from the cache without contacting
\* the worker; another path, with the session bound, is requested from the
\* worker and the answer overwrites the cache; with no session bound the call
\* returns false, requests nothing and leaves the cache alone.
C10_CacheRule ==
    [][/\ (ev'.act = "Load" /\ endpointIsDotcom /\ ev'.path # Undefined) =>
            IF lastRepo.defined /\ lastRepo.path = ev'.path
            THEN /\ ev'.out = BoolStr(lastRepo.loadResult)
                 /\ sent' = <<>>
                 /\ UNCHANGED <<lastRepo, service, waiters, ready, inflight>>
            ELSE IF serviceStarted
            THEN /\ ev'.out = "pending"
                 /\ Len(ready') = Len(ready) + 1
                 /\ ready'[Len(ready')].op = "load"
                 /\ ready'[Len(ready')].path = ev'.path
            ELSE /\ ev'.out = "false"
                 /\ sent' = <<>>
                 /\ UNCHANGED <<lastRepo, inflight>>
       /\ (ev'.act = "EagerlyLoadSend" /\ ev'.op = "load") =>
            sent' = <<Req("embeddings/load", ev'.path)>>
       /\ (ev'.act = "EagerlyLoadResolve" /\ ev'.op = "load" /\ ev'.res # "error") =>
            lastRepo' = Repo(ev'.path, ev'.res = "true")]_vars

\* a load for another path than the cached one overwrote the cache
C10_Witness ==
    /\ ev.act = "EagerlyLoadResolve" /\ ev.op = "load" /\ ev.res = "true"
    /\ lastRepo = Repo(ev.path, TRUE) /\ calls >= 3

\* C11: in every reachable state the status getter returns, for every
\* workspace root: no group when the backend is not primary; else one group
\* with state indeterminate when nothing is cached; else indexing when
\* pathBeingIndexed is the cached path; else ready when the cached loadResult
\* is true; else unconsented.  The group is named after the cached path, or
\* the workspace root when nothing is cached.
C11_StatusTable ==
    \A root \in Paths \cup {Undefined} :
        LET st == Status(endpointIsDotcom, lastRepo, pathBeingIndexed, root)
        IN  /\ ~endpointIsDotcom => st = <<>>
            /\ endpointIsDotcom =>
                 /\ Len(st) = 1
                 /\ st[1].kind = "embeddings" /\ st[1].type = "local"
                 /\ ~lastRepo.defined =>
                      /\ st[1].state = "indeterminate"
                      /\ st[1].name = (IF root # Undefined THEN root
                                       ELSE "(No workspace loaded)")
                 /\ lastRepo.defined =>
                      /\ st[1].name = lastRepo.path
                      /\ pathBeingIndexed = lastRepo.path => st[1].state = "indexing"
                      /\ (pathBeingIndexed # lastRepo.path /\ lastRepo.loadResult)
                            => st[1].state = "ready"
                      /\ (pathBeingIndexed # lastRepo.path /\ ~lastRepo.loadResult)
                            => st[1].state = "unconsented"

\* the cached path is loaded and is being indexed: the order of the table
\* decides
C11_Witness ==
    /\ endpointIsDotcom /\ lastRepo.defined /\ lastRepo.loadResult
    /\ pathBeingIndexed = lastRepo.path
    /\ Status(endpointIsDotcom, lastRepo, pathBeingIndexed, Undefined)[1].state
          = "indexing"

\* C12: when spawnBfg fails, every task awaiting the attempt is resumed and
\* every start() that awaited it, or is called after it, ends with the spawn
\* error; load with the backend primary and a path that is not cached returns
\* false, and its background attempt swallows the error; getContext returns
\* the empty list; none of these steps changes lastRepo or pathBeingIndexed.
C12_SpawnFailurePolicy ==
    [][
       /\ ev'.act = "SpawnFail" =>
            /\ service' = "rejected"
            /\ ready' = ready \o waiters /\ waiters' = <<>>
            /\ UNCHANGED <<lastRepo, pathBeingIndexed>>
       /\ (ev'.act = "StartAfterService" /\ service = "rejected") =>
            /\ ev'.out = "raised"
            /\ sent' = <<>>
            /\ UNCHANGED <<lastRepo, pathBeingIndexed>>
       /\ (/\ ev'.act = "Load" /\ service' = "rejected"
           /\ endpointIsDotcom /\ ev'.path # Undefined
           /\ ~(lastRepo.defined /\ lastRepo.path = ev'.path)) =>
            /\ ev'.out = "false"
            /\ sent' = <<>>
            /\ UNCHANGED <<lastRepo, pathBeingIndexed>>
       /\ (ev'.act = "LoadSpawnSettled" /\ service = "rejected") =>
            /\ ev'.out = "ok"
            /\ sent' = <<>>
            /\ UNCHANGED <<lastRepo, pathBeingIndexed>>
       /\ (ev'.act = "QuerySend" /\ ev'.op = "getContext" /\ service = "rejected") =>
            /\ ev'.out = "empty"
            /\ sent' = <<>>
            /\ UNCHANGED <<lastRepo, pathBeingIndexed>>
    ]_vars

\* the spawn failed with two start() calls awaiting it: the first has been
\* rejected, the second is about to be
C12_Witness ==
    /\ ev.act = "StartAfterService" /\ ev.out = "raised" /\ service = "rejected"
    /\ ready # <<>> /\ Head(ready).op = "start" /\ Head(ready).pc = "awaitService"

\* C13: a token held when the spawn succeeds is sent in an embeddings/set-token
\* request by the binding step; a setAccessToken call that changes the held
\* token to another token while the session is started queues a continuation
\* that sends embeddings/set-token with that token; so, whenever the session is
\* started, no setAccessToken call is unfinished and a token is held, the
\* latest embeddings/set-token request carried the held token.
C13_TokenForwarded ==
    /\ [][
          /\ (ev'.act = "SpawnSucceed" /\ accessToken # Undefined) =>
                sent' = <<Req("embeddings/set-token", accessToken)>>
          /\ (/\ ev'.act = "SetAccessToken" /\ serviceStarted
              /\ ev'.res # Null /\ ev'.res # accessToken) =>
                /\ accessToken' = ev'.res
                /\ Len(ready') = Len(ready) + 1
                /\ ready'[Len(ready')].op = "setAccessToken"
                /\ ready'[Len(ready')].token = ev'.res
          /\ (ev'.act = "SendToken" /\ service = "resolved") =>
                sent' = <<Req("embeddings/set-token", Head(ready).token)>>
          /\ (sent' # <<>> /\ sent'[1].method = "embeddings/set-token") =>
                workerToken' = sent'[1].arg
       ]_vars
    /\ []((/\ serviceStarted /\ accessToken # Undefined
           /\ \A i \in DOMAIN AllTasks : AllTasks[i].op # "setAccessToken")
          => workerToken = accessToken)

\* the token was changed while the session was started and the second token
\* has reached the worker
C13_Witness ==
    /\ ev.act = "SendToken" /\ ev.out = "ok" /\ calls >= 3
    /\ sent = <<Req("embeddings/set-token", accessToken)>>
    /\ \A i \in DOMAIN AllTasks : AllTasks[i].op # "setAccessToken"

\* C14 (as claimed): the acknowledgement of an embeddings/index request records
\* the path cached at the index() call, creates the status bar item and fires
\* the status event once; and from then until a Done notification is received,
\* status reports indexing whenever that path is the cached one.
C14_IndexingUntilDone ==
    [][
       /\ (ev'.act = "IndexAck" /\ ev'.res = "ack") =>
            /\ pathBeingIndexed' = ev'.path
            /\ statusBar'.defined
            /\ StatusFires(emitted') = 1
       /\ (pathBeingIndexed # Undefined /\ ~(ev'.act = "Notify" /\ ev'.res = "Done")) =>
            ((lastRepo'.defined /\ lastRepo'.path = pathBeingIndexed) =>
                /\ Len(Status(endpointIsDotcom', lastRepo', pathBeingIndexed', Undefined)) = 1
                /\ Status(endpointIsDotcom', lastRepo', pathBeingIndexed', Undefined)[1].state
                      = "indexing")
    ]_vars

\* C14 (amended): the acknowledgement of an embeddings/index request records
\* the path that was cached at the index() call, creates a fresh status bar
\* item and fires the status event once, the observer reading the new record;
\* the record then stays until a Done notification is handled or another
\* embeddings/index request is acknowledged, and as long as it stays, status
\* reports indexing whenever the backend is primary and the recorded path is
\* the cached one.
C14_IndexingWhilePrimary ==
    [][
       /\ (ev'.act = "Index" /\ ev'.out = "pending") =>
            /\ endpointIsDotcom /\ lastRepo.defined /\ ~lastRepo.loadResult
            /\ ev'.path = lastRepo.path
       /\ (ev'.act = "IndexAck" /\ ev'.res = "ack") =>
            /\ pathBeingIndexed' = ev'.path
            /\ statusBar'.defined /\ statusBar'.percent = 0 /\ ~statusBar'.warn
            /\ StatusFires(emitted') = 1
            /\ emitted'[1].pathBeingIndexed = ev'.path
       /\ (/\ pathBeingIndexed # Undefined
           /\ ~(ev'.act = "Notify" /\ ev'.res = "Done")
           /\ ~(ev'.act = "IndexAck" /\ ev'.res = "ack")) =>
            /\ pathBeingIndexed' = pathBeingIndexed
            /\ statusBar'.defined
            /\ (/\ endpointIsDotcom'
                /\ lastRepo'.defined /\ lastRepo'.path = pathBeingIndexed) =>
                  Status(endpointIsDotcom', lastRepo', pathBeingIndexed', Undefined)[1].state
                      = "indexing"
    ]_vars

\* a job is recorded on the cached path, a Progress notification has been
\* shown and no Done received: status reports indexing
C14_Witness ==
    /\ ev.act = "Notify" /\ ev.res = "Progress" /\ ev.out = "shown"
    /\ jobOpen /\ endpointIsDotcom
    /\ lastRepo.defined /\ pathBeingIndexed = lastRepo.path
    /\ Status(endpointIsDotcom, lastRepo, pathBeingIndexed, Undefined)[1].state
          = "indexing"

\* C15 (as claimed): every Done notification the handler receives, whatever
\* the state, fires the status event and leaves pathBeingIndexed unset; and a
\* recorded job is always one whose Done has not been received.
C15_DoneAlwaysClears ==
    /\ [][(ev'.act = "Notify" /\ ev'.res = "Done") =>
             /\ StatusFires(emitted') = 1
             /\ pathBeingIndexed' = Undefined]_vars
    /\ [](pathBeingIndexed # Undefined => jobOpen)

\* C16 (as claimed): when the change event after the post-Done reload fires,
\* the observer reads pathBeingIndexed unset, and never reads loadResult true
\* for a path that is still recorded as being indexed.
C16_ChangeAfterDoneSeesNoJob ==
    ev.act = "ReloadAfterDone" =>
        \A i \in DOMAIN emitted :
            emitted[i].emitter = "change" =>
                /\ emitted[i].pathBeingIndexed = Undefined
                /\ ~(/\ emitted[i].lastRepo.defined
                     /\ emitted[i].lastRepo.loadResult
                     /\ emitted[i].lastRepo.path = emitted[i].pathBeingIndexed)

\* C17: the step that binds the session registers the embeddings/progress
\* handler once, and no other step registers one; the session is marked
\* started, the post-spawn change event is fired and the callers awaiting
\* getService are resumed only with the handler registered; no request is sent
\* to the worker while no handler is registered.
C17_HandlerBeforeTraffic ==
    /\ [][
          /\ ev'.act = "SpawnSucceed" =>
                /\ handlers = 0 /\ handlers' = 1
                /\ serviceStarted'
                /\ Len(emitted') = 1 /\ emitted'[1].emitter = "change"
                /\ ready' = ready \o waiters
          /\ ev'.act # "SpawnSucceed" => handlers' = handlers
          /\ sent' # <<>> => handlers' = 1
       ]_vars
    /\ [](/\ handlers <= 1
          /\ serviceStarted => handlers = 1
          /\ service = "resolved" => handlers = 1
          /\ inflight # <<>> => handlers = 1)

\* the session has just been bound with a token held: the handler is
\* registered, the token is on its way and a caller is about to resume
C17_Witness ==
    /\ ev.act = "SpawnSucceed" /\ handlers = 1
    /\ sent # <<>> /\ sent[1].method = "embeddings/set-token"
    /\ ready # <<>>

\* C18: when the embeddings/index request fails, or the service promise is
\* rejected, index() ends normally, pathBeingIndexed, lastRepo and the status
\* bar item stay as they were, nothing is sent and no event is fired; status
\* reads the same before and after.
C18_IndexFailureSwallowed ==
    [][((ev'.act = "IndexAck" /\ ev'.res = "error")
        \/ (ev'.act = "IndexSend" /\ service = "rejected"))
       => /\ ev'.out = "ok"
          /\ sent' = <<>>
          /\ emitted' = <<>>
          /\ UNCHANGED <<pathBeingIndexed, lastRepo, statusBar>>
          /\ Status(endpointIsDotcom', lastRepo', pathBeingIndexed', Undefined)
                = Status(endpointIsDotcom, lastRepo, pathBeingIndexed, Undefined)]_vars

\* the only index request was rejected: no job is recorded and status stays
\* unconsented
C18_Witness ==
    /\ ev.act = "IndexAck" /\ ev.res = "error" /\ ev.out = "ok"
    /\ pathBeingIndexed = Undefined /\ ~statusBar.defined
    /\ endpointIsDotcom /\ lastRepo.defined
    /\ Status(endpointIsDotcom, lastRepo, pathBeingIndexed, Undefined)[1].state
          = "unconsented"

\* C19: when an embeddings/load request fails, or the service promise is
\* rejected, whether the load came from load(), from start() or from the
\* reload after Done, lastRepo is what it was before, no event is fired, and
\* the Done handler's task ends there without its change event.
C19_FailedLoadKeepsCache ==
    [][((ev'.act = "EagerlyLoadResolve" /\ ev'.res = "error")
        \/ (ev'.act = "EagerlyLoadSend" /\ service = "rejected"))
       => /\ ev'.op \in {"load", "start", "done"}
          /\ lastRepo' = lastRepo
          /\ emitted' = <<>>
          /\ sent' = <<>>
          /\ ready' = Tail(ready)
          /\ ev'.out \in {"raised", "unhandled"}]_vars

\* the reload after Done failed: the cache still holds the result of before
C19_Witness ==
    /\ ev.act = "EagerlyLoadResolve" /\ ev.op = "done" /\ ev.res = "error"
    /\ lastRepo = Repo(ev.path, FALSE) /\ emitted = <<>>

\* C20: a Done notification starts a reload of the recorded path exactly when
\* a job is recorded and its path is the cached path or nothing is cached;
\* the reload sends embeddings/load for that path and, once it has resolved,
\* fires the change event; with a job recorded for another path than the
\* cached one, Done starts nothing, sends nothing, leaves lastRepo alone and
\* fires no change event, but unsets pathBeingIndexed and fires the status
\* event.  Nothing else starts such a reload or fires its change event.
C20_ReloadOnlyForCachedPath ==
    [][
       /\ (ev'.act = "Notify" /\ ev'.res = "Done") =>
            /\ (/\ pathBeingIndexed # Undefined
                /\ (~lastRepo.defined \/ lastRepo.path = pathBeingIndexed))
               <=> (/\ Len(ready') = Len(ready) + 1
                    /\ ready'[Len(ready')].op = "done"
                    /\ ready'[Len(ready')].path = pathBeingIndexed)
            /\ (/\ pathBeingIndexed # Undefined
                /\ lastRepo.defined /\ lastRepo.path # pathBeingIndexed)
               => (/\ UNCHANGED <<ready, waiters, inflight>>
                   /\ pathBeingIndexed' = Undefined
                   /\ StatusFires(emitted') = 1)
            /\ sent' = <<>>
            /\ lastRepo' = lastRepo
            /\ \A i \in DOMAIN emitted' : emitted'[i].emitter # "change"
       /\ (ev'.act = "EagerlyLoadSend" /\ ev'.op = "done") =>
            sent' = <<Req("embeddings/load", ev'.path)>>
       /\ (ev'.act = "EagerlyLoadResolve" /\ ev'.op = "done" /\ ev'.res # "error") =>
            /\ ready' # <<>>
            /\ ready'[Len(ready')].op = "done" /\ ready'[Len(ready')].pc = "afterLoad"
       /\ ev'.act = "ReloadAfterDone" =>
            Len(emitted') = 1 /\ emitted'[1].emitter = "change"
       /\ (\E i \in DOMAIN emitted' : emitted'[i].emitter = "change") =>
            ev'.act \in {"ReloadAfterDone", "SpawnSucceed", "SetAccessToken"}
       /\ (Len(SelectSeq(AllTasks', LAMBDA t : t.op = "done"))
             > Len(SelectSeq(AllTasks, LAMBDA t : t.op = "done"))) =>
            (ev'.act = "Notify" /\ ev'.res = "Done")
    ]_vars

\* another root was loaded while the job ran: Done reloads nothing, unsets
\* pathBeingIndexed and fires the status event
C20_Witness ==
    /\ ev.act = "Notify" /\ ev.res = "Done" /\ ev.out = "noreload"
    /\ ev.path # Undefined /\ lastRepo.defined /\ lastRepo.path # ev.path
    /\ pathBeingIndexed = Undefined /\ StatusFires(emitted) = 1
    /\ \A i \in DOMAIN AllTasks : AllTasks[i].op # "done"

\* C21 (as claimed): while the backend is not primary no step sends an
\* embeddings/load, embeddings/index or embeddings/query request.
C21_NoTrafficWhenNotPrimary ==
    ~endpointIsDotcom =>
        \A i \in DOMAIN sent :
            sent[i].method \notin {"embeddings/load", "embeddings/index",
                                   "embeddings/query"}

\* C22 (as claimed): the status an observer reads inside a status event's
\* callback is the status of the state the firing step leaves; after a
\* setAccessToken that changed the backend flag it is the empty list exactly
\* when the new backend is not primary.
C22_StatusEventSeesNewState ==
    \A i \in DOMAIN emitted :
        emitted[i].emitter = "status" =>
            /\ emitted[i].status
                 = StatusState(endpointIsDotcom, lastRepo, pathBeingIndexed)
            /\ ev.act = "SetAccessToken" =>
                 ((emitted[i].status = "none") <=> ~endpointIsDotcom)

\* a call that has yet to send, or to hear the answer to, an embeddings/load
\* request
LoadsOutstanding ==
    \E i \in DOMAIN AllTasks :
        /\ AllTasks[i].op \in {"start", "load", "done"}
        /\ AllTasks[i].pc \in {"awaitService", "awaitService2", "awaitLoad"}

\* C23 (as claimed): when the last of several embeddings/load round-trips
\* resolves, lastRepo holds the path of the request that was sent last: the
\* answer that resolves last is never the answer to a request that a later
\* request, for another path and not failed, has superseded.
C23_LastIssuedLoadWins ==
    [][(/\ ev'.act = "EagerlyLoadResolve" /\ ev'.res # "error"
        /\ ~LoadsOutstanding')
       => Head(ready).newer \in {Undefined, lastRepo'.path}]_vars
====
